---- MODULE Spec2Model ----
(***************************************************************************)
(* A model of kvark/frame-graph, src/lib.rs: the FrameGraph resource       *)
(* arenas, the sub-resource hazard scan stamp_image, the task registry     *)
(* add_render_task and the frame compiler/submitter run.                   *)
(*                                                                         *)
(* The FrameGraph is driven by one thread (all methods take &mut self), so *)
(* there is one program counter, pc.  use_buffer and use_image are atomic. *)
(* stamp_image is modelled statement by statement, because its loops are   *)
(* what the termination and coverage properties are about.  run is         *)
(* modelled one loop iteration at a time; the calls it makes on the        *)
(* device, the tasks, the command buffer and the queue are appended to the *)
(* sequence calls, which is the externally visible behaviour of the runs.  *)
(***************************************************************************)
EXTENDS Integers, Sequences, FiniteSets, TLC

(* ---------------- bounds of the model ---------------- *)
MaxImages == 2
MaxBuffers == 1
MaxTasks == 2
MaxRuns == 2
MaxLevels == 1
MaxLayers == 2

(* ---------------- hal types ---------------- *)
\* Option<T>::None.
None == <<>>

\* hal::format::Aspects, the aspect flags an image format can have.
Aspects == {"COLOR", "DEPTH"}

\* Option<T>::Some.
Some(x) == <<x>>

\* Range<T>, start .. end (half open).
Range(s, e) == [start |-> s, end |-> e]

\* hal::image::SubresourceRange.
SubresourceRange(a, lv, ly) == [aspects |-> a, levels |-> lv, layers |-> ly]

Max(a, b) == IF a >= b THEN a ELSE b
Min(a, b) == IF a <= b THEN a ELSE b

\* hal::image::Access::ALL_WRITE and the flags used by add_render_task.
ALL_WRITE == {"COLOR_ATTACHMENT_WRITE", "DEPTH_STENCIL_ATTACHMENT_WRITE"}
INPUT_ATTACHMENT_READ == {"INPUT_ATTACHMENT_READ"}
COLOR_ATTACHMENT_WRITE == {"COLOR_ATTACHMENT_WRITE"}
DEPTH_STENCIL_ATTACHMENT_WRITE == {"DEPTH_STENCIL_ATTACHMENT_WRITE"}

\* Access::intersects.
Intersects(a, b) == a \cap b # {}

(* ---------------- Resource: full_part and idle_state ---------------- *)

\* Image::full_part. An image is [kind |-> [levels, layers], format, body].
ImageFullPart(image) ==
    SubresourceRange(image.format,
                     Range(0, image.kind.levels),
                     Range(0, image.kind.layers))

\* Image::idle_state.
ImageIdleState(image) ==
    IF image.body # None THEN image.body[1]
    ELSE [access |-> {}, layout |-> "Undefined"]

\* Buffer::full_part: the unit value.
BufferFullPart(buffer) == "()"

\* Buffer::idle_state.
BufferIdleState(buffer) ==
    IF buffer.body # None THEN buffer.body[1] ELSE {}

\* TrackedImage with a slip: the seed entry stops one level short of the
\* image's extent.
TrackedImage_ShortSeed(image) ==
    [resource |-> image,
     states |-> << [part |-> SubresourceRange(image.format,
                                              Range(0, image.kind.levels - 1),
                                              Range(0, image.kind.layers)),
                    state |-> ImageIdleState(image),
                    dependencies |-> <<>>] >>]

\* TrackedResource::from for an image.
TrackedImage(image) ==
    [resource |-> image,
     states |-> << [part |-> ImageFullPart(image),
                    state |-> ImageIdleState(image),
                    dependencies |-> <<>>] >>]

\* TrackedResource::from for a buffer.
TrackedBuffer(buffer) ==
    [resource |-> buffer,
     states |-> << [part |-> BufferFullPart(buffer),
                    state |-> BufferIdleState(buffer),
                    dependencies |-> <<>>] >>]

(* ---------------- the inputs the caller can pass ---------------- *)
Layouts == {"General", "ShaderReadOnlyOptimal"}

ImageStates ==
    { [access |-> INPUT_ATTACHMENT_READ, layout |-> "ShaderReadOnlyOptimal"],
      [access |-> COLOR_ATTACHMENT_WRITE, layout |-> "General"] }

ImageInputs ==
    { [kind |-> [levels |-> lv, layers |-> ly], format |-> {f}, body |-> b] :
        lv \in 1..MaxLevels, ly \in 1..MaxLayers, f \in Aspects,
        b \in {None} \cup {Some(s) : s \in ImageStates} }

BufferInputs ==
    { [size |-> 1024, stride |-> 4, body |-> b] :
        b \in {None, Some({"SHADER_READ"})} }

\* hal: From<SubresourceLayers> for SubresourceRange, the `sl.into()` of
\* add_render_task: one mip level, the given layers. (Level is u8; the
\* levels of LayerInputs stay far below 255, where level + 1 would wrap.)
Into(sl) ==
    SubresourceRange(sl.aspects, Range(sl.level, sl.level + 1), sl.layers)

\* The SubresourceLayers a caller can name: one aspect, a level and a
\* non-empty layer range, inside or outside the images of ImageInputs.
LayerInputs ==
    { sl \in [aspects : {{a} : a \in Aspects},
              level : 0..MaxLevels,
              layers : [start : 0..MaxLayers, end : 1..(MaxLayers + 1)]] :
        sl.layers.start < sl.layers.end }

\* One declared attachment: (ImageRef, (SubresourceLayers, ImageLayout)).
\* The AttachmentOps of outputs and depth_stencil are carried along
\* untouched by the code and are left out.
AttachmentInputs(nimages, sls) ==
    [ir : 1..nimages, sl : sls, layout : Layouts]

NoAttachments == [inputs |-> <<>>, outputs |-> <<>>, depth_stencil |-> None]

\* The Attachments a caller passes that hold an attachment: one input, one
\* output, one depth-stencil, or the same sub-resource as input and output.
AttachmentsInputs(as) ==
    { [NoAttachments EXCEPT !.inputs = <<a>>] : a \in as }
    \cup { [NoAttachments EXCEPT !.outputs = <<a>>] : a \in as }
    \cup { [NoAttachments EXCEPT !.depth_stencil = Some(a)] : a \in as }
    \cup { [NoAttachments EXCEPT !.inputs = <<a>>, !.outputs = <<a>>] : a \in as }

\* The inputs of the specification of the whole FrameGraph, Spec: colour
\* images of one level and one layer, without a body or last written as a
\* colour attachment, and render tasks that declare either
\* one input attachment (level 0 or level 1 of an image, in the layout
\* General) or resources, or nothing.
FrameImageInputs ==
    { image \in ImageInputs :
        /\ image.kind = [levels |-> 1, layers |-> 1]
        /\ image.format = {"COLOR"}
        /\ image.body \in {None, Some([access |-> COLOR_ATTACHMENT_WRITE,
                                       layout |-> "General"])} }

FrameAttachmentsInputs(nimages) ==
    { [NoAttachments EXCEPT !.inputs = <<a>>] :
           a \in { x \in AttachmentInputs(nimages, LayerInputs) :
                     /\ x.sl.aspects = {"COLOR"}
                     /\ x.sl.level \in {0, 1}
                     /\ x.sl.layers = Range(0, 1)
                     /\ x.layout = "General" } }

NoResources == [buffers |-> <<>>, images |-> <<>>]

\* The Resources a caller passes: none, or one read-only buffer access.
ResourcesInputs(nbuffers) ==
    {NoResources}
    \cup { [NoResources EXCEPT !.buffers = << <<b, {"SHADER_READ"}>> >>] :
             b \in 1..nbuffers }

(* ---------------- the state ---------------- *)
VARIABLES
    buffers,       \* FrameGraph::buffers, Vec<TrackedResource<Buffer>>
    images,        \* FrameGraph::images, Vec<TrackedResource<Image>>
    tasks,         \* FrameGraph::tasks, Vec<Task>
    pc,            \* where the one thread of control is
    call,          \* the arguments of the add_render_task call in progress
    image_ref,     \* stamp_image: image_ref (1-based)
    access,        \* stamp_image: access
    layout,        \* stamp_image: layout
    active_parts,  \* stamp_image: active_parts
    i,             \* stamp_image: history entries the reversed iterator has left
    j,             \* stamp_image: j
    nodes,         \* run: nodes
    n,             \* run: position of the loop over tasks, then over nodes
    calls          \* every call made so far on the device, the tasks, the
                   \* command pool/buffer and the queue, in order

vars == <<buffers, images, tasks, pc, call, image_ref, access, layout,
          active_parts, i, j, nodes, n, calls>>

stamp_vars == <<image_ref, access, layout, active_parts, i, j>>
run_vars == <<nodes, n, calls>>

Init ==
    /\ buffers = <<>>
    /\ images = <<>>
    /\ tasks = <<>>
    /\ pc = "idle"
    /\ call = None
    /\ image_ref = 0
    /\ access = {}
    /\ layout = "Undefined"
    /\ active_parts = <<>>
    /\ i = 0
    /\ j = 0
    /\ nodes = <<>>
    /\ n = 0
    /\ calls = <<>>

(* ---------------- use_buffer, use_image ---------------- *)

\* FrameGraph::use_buffer. The handle returned is the old length (0-based),
\* which is the new length as a 1-based index.
UseBuffer(buffer) ==
    /\ pc = "idle"
    /\ Len(buffers) < MaxBuffers
    /\ buffers' = Append(buffers, TrackedBuffer(buffer))
    /\ UNCHANGED <<images, tasks, pc, call, stamp_vars, run_vars>>

\* UseImage with a slip: the resource is put in front of the arena, so that
\* the handles given out before point to other resources.
UseImage_Prepends(image) ==
    /\ pc = "idle"
    /\ Len(images) < MaxImages
    /\ images' = <<TrackedImage(image)>> \o images
    /\ UNCHANGED <<buffers, tasks, pc, call, stamp_vars, run_vars>>

\* FrameGraph::use_image.
UseImage(image) ==
    /\ pc = "idle"
    /\ Len(images) < MaxImages
    /\ images' = Append(images, TrackedImage(image))
    /\ UNCHANGED <<buffers, tasks, pc, call, stamp_vars, run_vars>>

(* ---------------- stamp_image ---------------- *)

\* The entry of stamp_image: `tr` is bound to the image, active_parts is
\* vec![subresource], and the reversed iterator over tr.states is created.
StampImageCall(ir, subresource, acc, lay) ==
    /\ image_ref' = ir
    /\ access' = acc
    /\ layout' = lay
    /\ active_parts' = <<subresource>>
    /\ i' = Len(images[ir].states)
    /\ j' = 0
    /\ pc' = "for"

\* `ts`, the history entry the for loop is at.
ts == images[image_ref].states[i]

\* `part`, &mut active_parts[j] (j counts from 0).
part == active_parts[j + 1]

\* The intersection of a history entry's part with an active part.
Intersection(a, b) ==
    SubresourceRange(a.aspects \cap b.aspects,
                     Range(Max(a.levels.start, b.levels.start),
                           Min(a.levels.end, b.levels.end)),
                     Range(Max(a.layers.start, b.layers.start),
                           Min(a.layers.end, b.layers.end)))

\* The test that an intersection holds no sub-resource.
IsEmpty(p) ==
    \/ p.aspects = {}
    \/ p.levels.start >= p.levels.end
    \/ p.layers.start >= p.layers.end

\* The condition guarding the `// dependency is required` block.
DependencyRequired(acc, state) ==
    Intersects(acc, ALL_WRITE) \/ Intersects(state.access, ALL_WRITE)

\* for (i, ts) in tr.states.iter_mut().enumerate().rev(): the next entry,
\* and `let mut j = 0`.
StampForNext ==
    /\ pc = "for"
    /\ i > 0
    /\ j' = 0
    /\ pc' = "while"
    /\ UNCHANGED <<buffers, images, tasks, call, image_ref, access, layout,
                   active_parts, i, run_vars>>

\* The for loop is over: the panic that ends stamp_image.
StampPanic ==
    /\ pc = "for"
    /\ i = 0
    /\ pc' = "panicked"
    /\ UNCHANGED <<buffers, images, tasks, call, stamp_vars, run_vars>>

\* StampSkip with a slip: the entry that does not intersect the active part
\* is given a dependency edge before the scan moves on.
StampSkip_RecordsEdge ==
    /\ pc = "while"
    /\ j < Len(active_parts)
    /\ IsEmpty(Intersection(ts.part, part))
    /\ images' = [images EXCEPT ![image_ref].states[i].dependencies =
                     Append(@, <<i, Intersection(ts.part, part)>>)]
    /\ j' = j + 1
    /\ UNCHANGED <<buffers, tasks, pc, call, image_ref, access, layout,
                   active_parts, i, run_vars>>

\* while j < active_parts.len(), empty intersection: j += 1; continue.
StampSkip ==
    /\ pc = "while"
    /\ j < Len(active_parts)
    /\ IsEmpty(Intersection(ts.part, part))
    /\ j' = j + 1
    /\ UNCHANGED <<buffers, images, tasks, pc, call, image_ref, access, layout,
                   active_parts, i, run_vars>>

\* while j < active_parts.len(), non-empty intersection: on to the test of
\* the access flags.
StampIntersect ==
    /\ pc = "while"
    /\ j < Len(active_parts)
    /\ ~IsEmpty(Intersection(ts.part, part))
    /\ pc' = "hazard"
    /\ UNCHANGED <<buffers, images, tasks, call, stamp_vars, run_vars>>

\* StampHazard with a slip: the history entry met is overwritten with the
\* state being stamped.
StampHazard_OverwritesState ==
    /\ pc = "hazard"
    /\ images' = [images EXCEPT ![image_ref].states[i].state =
                                    [access |-> access, layout |-> layout]]
    /\ pc' = "while"
    /\ UNCHANGED <<buffers, tasks, call, image_ref, access, layout,
                   active_parts, i, j, run_vars>>

\* if access is a write || ts.state.0 is a write { /* dependency is
\* required */ }: the block is empty and there is no else, so in both cases
\* nothing is assigned and control is back at the head of the while loop
\* with j, active_parts and ts as they were.
StampHazard ==
    /\ pc = "hazard"
    /\ IF DependencyRequired(access, ts.state)
       THEN UNCHANGED <<images, active_parts, j>>
       ELSE UNCHANGED <<images, active_parts, j>>
    /\ pc' = "while"
    /\ UNCHANGED <<buffers, tasks, call, image_ref, access, layout, i, run_vars>>

\* j = active_parts.len(): the while loop is over, the for loop goes on.
StampWhileExit ==
    /\ pc = "while"
    /\ j >= Len(active_parts)
    /\ i' = i - 1
    /\ pc' = "for"
    /\ UNCHANGED <<buffers, images, tasks, call, image_ref, access, layout,
                   active_parts, j, run_vars>>

StampStep ==
    \/ StampForNext
    \/ StampPanic
    \/ StampSkip
    \/ StampIntersect
    \/ StampHazard
    \/ StampWhileExit

(* ---------------- add_render_task ---------------- *)

\* The first stamp_image call add_render_task makes: the first input, else
\* the first output, else the depth-stencil attachment (an Option: None
\* without attachments).
FirstStamp(attachments) ==
    IF attachments.inputs # <<>>
    THEN Some([a |-> attachments.inputs[1], access |-> INPUT_ATTACHMENT_READ])
    ELSE IF attachments.outputs # <<>>
    THEN Some([a |-> attachments.outputs[1], access |-> COLOR_ATTACHMENT_WRITE])
    ELSE IF attachments.depth_stencil # None
    THEN Some([a |-> attachments.depth_stencil[1],
               access |-> DEPTH_STENCIL_ATTACHMENT_WRITE])
    ELSE None

\* Task::Graphics(Box::new(task), atts, resources); the boxed task is
\* identified by its position in `tasks`.
Graphics(atts, resources) ==
    [kind |-> "Graphics", atts |-> atts, resources |-> resources]

\* AddRenderTask with a slip: the task is pushed before its attachments
\* are stamped.
AddRenderTask_PushesFirst(attachments, resources) ==
    /\ pc = "idle"
    /\ IF FirstStamp(attachments) # None
       THEN /\ StampImageCall(FirstStamp(attachments)[1].a.ir,
                              Into(FirstStamp(attachments)[1].a.sl),
                              FirstStamp(attachments)[1].access,
                              FirstStamp(attachments)[1].a.layout)
            /\ call' = Some([attachments |-> attachments, resources |-> resources])
            /\ tasks' = Append(tasks, Graphics(NoAttachments, resources))
            /\ UNCHANGED <<buffers, images, run_vars>>
       ELSE /\ Len(tasks) < MaxTasks
            /\ tasks' = Append(tasks, Graphics(NoAttachments, resources))
            /\ UNCHANGED <<buffers, images, pc, call, stamp_vars, run_vars>>

\* FrameGraph::add_render_task. stamp_image has no return path (it ends in
\* panic!), so the statements after the first stamp_image call are never
\* executed: with an attachment the call enters stamp_image and stays in it
\* or panics; without one all three loops are skipped, `atts` stays empty
\* and the task is pushed.
AddRenderTask(attachments, resources) ==
    /\ pc = "idle"
    /\ IF FirstStamp(attachments) # None
       THEN /\ StampImageCall(FirstStamp(attachments)[1].a.ir,
                              Into(FirstStamp(attachments)[1].a.sl),
                              FirstStamp(attachments)[1].access,
                              FirstStamp(attachments)[1].a.layout)
            /\ call' = Some([attachments |-> attachments, resources |-> resources])
            /\ UNCHANGED <<buffers, images, tasks, run_vars>>
       ELSE /\ Len(tasks) < MaxTasks
            /\ tasks' = Append(tasks, Graphics(NoAttachments, resources))
            /\ UNCHANGED <<buffers, images, pc, call, stamp_vars, run_vars>>

(* ---------------- run ---------------- *)

\* One entry of `calls`: the operation, the task it is made on (its
\* position in `tasks`, 0 if none), the render pass and the subpass index
\* it concerns (0 if none).
Call(op, task, pass, index) ==
    [op |-> op, task |-> task, pass |-> pass, index |-> index]

\* The number of entries of a sequence of calls with a given operation.
Count(cs, op) == Cardinality({k \in 1..Len(cs) : cs[k].op = op})

\* device.create_render_pass returns a new render pass object each time:
\* they are numbered in the order of creation.
NewRenderPass(cs) == Count(cs, "create_render_pass") + 1

\* The subpass index given to prepare: `index: 0, //TODO`.
PrepareIndex == 0

\* Node::Graphics(vec![t], renderpass, extent, Vec::new()).
GraphicsNode(t, renderpass) ==
    [kind |-> "Graphics", tasks |-> <<t>>, pass |-> renderpass,
     extent |-> [width |-> 0, height |-> 0, depth |-> 0],
     clear_values |-> <<>>]

\* RecordTasks with a slip: the encoder is advanced before the task is
\* recorded.
RECURSIVE RecordTasks_AdvancesFirst(_, _, _)
RecordTasks_AdvancesFirst(ts_, pass, index) ==
    IF ts_ = <<>> THEN <<>>
    ELSE << Call("next_subpass_inline", 0, pass, index + 1),
            Call("record", Head(ts_), pass, index + 1) >>
         \o RecordTasks_AdvancesFirst(Tail(ts_), pass, index + 1)

\* for task in tasks { task.record(&mut encoder);
\*                     encoder = encoder.next_subpass_inline(); }
\* on an encoder that is at subpass `index` of `pass`.
RECURSIVE RecordTasks(_, _, _)
RecordTasks(ts_, pass, index) ==
    IF ts_ = <<>> THEN <<>>
    ELSE << Call("record", Head(ts_), pass, index),
            Call("next_subpass_inline", 0, pass, index + 1) >>
         \o RecordTasks(Tail(ts_), pass, index + 1)

\* The entry of run: `let mut nodes = Vec::new()`.
RunBegin ==
    /\ pc = "idle"
    /\ Count(calls, "run") < MaxRuns
    /\ nodes' = <<>>
    /\ n' = 1
    /\ calls' = Append(calls, Call("run", 0, 0, 0))
    /\ pc' = "compile"
    /\ UNCHANGED <<buffers, images, tasks, call, stamp_vars>>

\* RunCompile with a slip: the node is put in front of `nodes`.
RunCompile_Prepends ==
    /\ pc = "compile"
    /\ n <= Len(tasks)
    /\ tasks[n].kind = "Graphics"
    /\ LET renderpass == NewRenderPass(calls)
       IN /\ calls' = calls \o << Call("create_render_pass", 0, renderpass, 0),
                                  Call("prepare", n, renderpass, PrepareIndex) >>
          /\ nodes' = <<GraphicsNode(n, renderpass)>> \o nodes
    /\ n' = n + 1
    /\ UNCHANGED <<buffers, images, tasks, pc, call, stamp_vars>>

\* for task in &mut self.tasks, Task::Graphics: a render pass is created,
\* the task is prepared for its subpass 0 and the node is pushed.
RunCompile ==
    /\ pc = "compile"
    /\ n <= Len(tasks)
    /\ tasks[n].kind = "Graphics"
    /\ LET renderpass == NewRenderPass(calls)
       IN /\ calls' = calls \o << Call("create_render_pass", 0, renderpass, 0),
                                  Call("prepare", n, renderpass, PrepareIndex) >>
          /\ nodes' = Append(nodes, GraphicsNode(n, renderpass))
    /\ n' = n + 1
    /\ UNCHANGED <<buffers, images, tasks, pc, call, stamp_vars>>

\* The loop over the tasks is over:
\* let mut cbuf = self.command_pool.acquire_command_buffer(false).
RunAcquire ==
    /\ pc = "compile"
    /\ n > Len(tasks)
    /\ calls' = Append(calls, Call("acquire_command_buffer", 0, 0, 0))
    /\ n' = 1
    /\ pc' = "record"
    /\ UNCHANGED <<buffers, images, tasks, call, stamp_vars, nodes>>

\* for node in &nodes, Node::Graphics, the framebuffer is created: the
\* render pass is begun inline and the node's tasks are recorded.
RunRecord ==
    /\ pc = "record"
    /\ n <= Len(nodes)
    /\ nodes[n].kind = "Graphics"
    /\ calls' = calls
                \o << Call("create_framebuffer", 0, nodes[n].pass, 0),
                      Call("begin_renderpass_inline", 0, nodes[n].pass, 0) >>
                \o RecordTasks(nodes[n].tasks, nodes[n].pass, 0)
    /\ n' = n + 1
    /\ UNCHANGED <<buffers, images, tasks, pc, call, stamp_vars, nodes>>

\* RunFramebufferFail with a slip: the error is dropped and the loop goes
\* on with the next node.
RunFramebufferFail_SkipsNode ==
    /\ pc = "record"
    /\ n <= Len(nodes)
    /\ nodes[n].kind = "Graphics"
    /\ calls' = Append(calls, Call("create_framebuffer_err", 0, nodes[n].pass, 0))
    /\ n' = n + 1
    /\ UNCHANGED <<buffers, images, tasks, pc, call, stamp_vars, nodes>>

\* for node in &nodes, Node::Graphics, device.create_framebuffer returns
\* Err: unwrap() panics.
RunFramebufferFail ==
    /\ pc = "record"
    /\ n <= Len(nodes)
    /\ nodes[n].kind = "Graphics"
    /\ calls' = Append(calls, Call("create_framebuffer_err", 0, nodes[n].pass, 0))
    /\ pc' = "panicked"
    /\ UNCHANGED <<buffers, images, tasks, call, stamp_vars, nodes, n>>

\* RunSubmit with a slip: the fence is reset after the submission that
\* arms it.
RunSubmit_ResetsAfter ==
    /\ pc = "record"
    /\ n > Len(nodes)
    /\ calls' = calls \o << Call("finish", 0, 0, 0),
                            Call("submit", 0, 0, 0),
                            Call("reset_fences", 0, 0, 0) >>
    /\ nodes' = <<>>
    /\ n' = 0
    /\ pc' = "idle"
    /\ UNCHANGED <<buffers, images, tasks, call, stamp_vars>>

\* The loop over the nodes is over: cbuf.finish(), the fence is reset and
\* the submission is made; run returns and `nodes` is dropped.
RunSubmit ==
    /\ pc = "record"
    /\ n > Len(nodes)
    /\ calls' = calls \o << Call("finish", 0, 0, 0),
                            Call("reset_fences", 0, 0, 0),
                            Call("submit", 0, 0, 0) >>
    /\ nodes' = <<>>
    /\ n' = 0
    /\ pc' = "idle"
    /\ UNCHANGED <<buffers, images, tasks, call, stamp_vars>>

RunStep ==
    \/ RunCompile
    \/ RunAcquire
    \/ RunRecord
    \/ RunFramebufferFail
    \/ RunSubmit

(* ---------------- transfer and compute tasks ---------------- *)

\* Task::Transfer(Box<WorkTask<B, hal::Transfer>>) and
\* Task::Compute(Box<WorkTask<B, hal::Compute>>).
WorkKinds == {"Transfer", "Compute"}

Work(kind) == [kind |-> kind]

\* add_transfer_task and add_compute_task: the boxed task is stored
\* directly as a Transfer or a Compute task.
AddWorkTask(kind) ==
    /\ pc = "idle"
    /\ Len(tasks) < MaxTasks
    /\ tasks' = Append(tasks, Work(kind))
    /\ UNCHANGED <<buffers, images, pc, call, stamp_vars, run_vars>>

\* Node::Transfer(t.as_ref()) and Node::Compute(t.as_ref()).
WorkNode(kind, t) == [kind |-> kind, task |-> t]

\* RunCompileWork with a slip: the task is compiled as a Graphics task is.
RunCompileWork_CreatesPass ==
    /\ pc = "compile"
    /\ n <= Len(tasks)
    /\ tasks[n].kind \in WorkKinds
    /\ LET renderpass == NewRenderPass(calls)
       IN /\ calls' = calls \o << Call("create_render_pass", 0, renderpass, 0),
                                  Call("prepare", n, renderpass, PrepareIndex) >>
          /\ nodes' = Append(nodes, GraphicsNode(n, renderpass))
    /\ n' = n + 1
    /\ UNCHANGED <<buffers, images, tasks, pc, call, stamp_vars>>

\* for task in &mut self.tasks, Task::Transfer and Task::Compute: the node
\* is a reference to the task; the device is not called.
RunCompileWork ==
    /\ pc = "compile"
    /\ n <= Len(tasks)
    /\ tasks[n].kind \in WorkKinds
    /\ nodes' = Append(nodes, WorkNode(tasks[n].kind, n))
    /\ n' = n + 1
    /\ UNCHANGED <<buffers, images, tasks, pc, call, stamp_vars, calls>>

\* for node in &nodes, Node::Transfer and Node::Compute:
\* task.record(cbuf.downgrade()), on the command buffer itself, outside of
\* any render pass (pass 0).
RunRecordWork ==
    /\ pc = "record"
    /\ n <= Len(nodes)
    /\ nodes[n].kind \in WorkKinds
    /\ calls' = Append(calls, Call("record", nodes[n].task, 0, 0))
    /\ n' = n + 1
    /\ UNCHANGED <<buffers, images, tasks, pc, call, stamp_vars, nodes>>

(* ---------------- the specifications ---------------- *)

\* The whole FrameGraph, with the inputs FrameImageInputs and
\* FrameAttachmentsInputs.
Next ==
    \/ \E buffer \in BufferInputs : UseBuffer(buffer)
    \/ \E image \in FrameImageInputs : UseImage(image)
    \/ /\ pc = "idle"
       /\ \E attachments \in FrameAttachmentsInputs(Len(images)) :
               AddRenderTask(attachments, NoResources)
    \/ /\ pc = "idle"
       /\ \E resources \in ResourcesInputs(Len(buffers)) :
               AddRenderTask(NoAttachments, resources)
    \/ RunBegin
    \/ StampStep
    \/ RunStep

Spec == Init /\ [][Next]_vars

\* stamp_image on its own: one image out of ImageInputs is registered and
\* add_render_task is called with any attachment over LayerInputs, which
\* enters stamp_image.
StampNext ==
    \/ \E image \in ImageInputs : images = <<>> /\ UseImage(image)
    \/ /\ pc = "idle"
       /\ \E attachments \in
               AttachmentsInputs(AttachmentInputs(Len(images), LayerInputs)) :
               AddRenderTask(attachments, NoResources)
    \/ StampStep

StampSpec == Init /\ [][StampNext]_vars

\* The thread that is inside stamp_image keeps executing: no step of a call
\* in progress is postponed for ever.
FairStampSpec == StampSpec /\ WF_vars(StampStep)

\* The FrameGraph with tasks of the three kinds and no resources.
WorkNext ==
    \/ \E kind \in WorkKinds : AddWorkTask(kind)
    \/ /\ pc = "idle"
       /\ AddRenderTask(NoAttachments, NoResources)
    \/ RunBegin
    \/ RunStep
    \/ RunCompileWork
    \/ RunRecordWork

WorkSpec == Init /\ [][WorkNext]_vars

(* ---------------- the properties ---------------- *)

\* Control is inside stamp_image.
InStamp == pc \in {"for", "while", "hazard"}

\* The sub-range stamp_image was called with (active_parts is never
\* assigned after its initialisation).
requested == active_parts[1]

\* The sub-resources of a part: (aspect, level, layer) triples.
Cells(p) ==
    { <<a, lv, ly>> : a \in p.aspects,
                      lv \in p.levels.start .. (p.levels.end - 1),
                      ly \in p.layers.start .. (p.layers.end - 1) }

\* The sub-ranges stamp_image can be called with under StampSpec.
PartInputs == { Into(sl) : sl \in LayerInputs }

\* Some history entry of the image being stamped overlaps the request.
OverlapsHistory ==
    \E k \in 1..Len(images[image_ref].states) :
        ~IsEmpty(Intersection(images[image_ref].states[k].part, requested))

\* Some TrackedState of image ir carries a dependency edge on part p.
EdgeRecorded(ir, p) ==
    \E k \in 1..Len(images[ir].states) :
        \E d \in 1..Len(images[ir].states[k].dependencies) :
            images[ir].states[k].dependencies[d][2] = p

\* C1: every call of stamp_image terminates (it returns or it panics), also
\* when the requested part intersects a history entry.
C1_StampTerminates == InStamp ~> ~InStamp

\* C2: when the scan meets a history entry that intersects the requested
\* part and one of the two accesses is a write, a TrackedState with a
\* dependency edge on the intersecting part ends up in the image's history.
C2_HazardRecordsEdge ==
    \A p \in PartInputs :
        (/\ pc = "hazard"
         /\ DependencyRequired(access, ts.state)
         /\ Intersection(ts.part, part) = p)
        ~> (\E ir \in 1..Len(images) : EdgeRecorded(ir, p))

\* The scan is at a history entry that shares no sub-resource with the
\* active part.
AtDisjointEntry ==
    /\ pc = "while"
    /\ j < Len(active_parts)
    /\ IsEmpty(Intersection(ts.part, part))

\* No TrackedState of image ir carries a dependency edge.
NoEdges(ir) ==
    \A k \in 1..Len(images[ir].states) :
        images[ir].states[k].dependencies = <<>>

\* C3: a history entry whose part is disjoint from the requested one (no
\* common aspect, level or layer) yields no dependency edge, whatever the
\* access kinds: the scan step at such an entry leaves every history as it
\* is and moves on, and a request disjoint from the whole history ends with
\* no edge recorded.
C3_NoEdgeForDisjoint ==
    /\ [][AtDisjointEntry => (images' = images /\ j' = j + 1 /\ pc' = "while")]_vars
    /\ []((pc = "panicked" /\ ~OverlapsHistory) => NoEdges(image_ref))

\* C3, witness: a stamp whose request is disjoint from the seed entry (by
\* aspect, by level or by layer) has skipped it and ended.
C3_Witness ==
    /\ pc = "panicked"
    /\ ~OverlapsHistory
    /\ j = 1
    /\ Intersects(access, ALL_WRITE)

\* C4: a read stamped over a sub-range whose previous access was a read
\* with the same access and layout succeeds (stamp_image returns, so that
\* add_render_task goes on and returns) and records no dependency edge.
C4_ReadAfterReadSucceeds ==
    (/\ pc = "hazard"
     /\ ~Intersects(access, ALL_WRITE)
     /\ ts.state = [access |-> access, layout |-> layout]
     /\ Intersection(ts.part, part) = requested)
    ~> (pc = "idle" /\ \A ir \in 1..Len(images) : NoEdges(ir))

\* Every sub-resource of the requested part lies in a history entry.
Covered ==
    Cells(requested) \subseteq
        UNION { Cells(images[image_ref].states[k].part) :
                  k \in 1..Len(images[image_ref].states) }

\* C5: stamp_image succeeds exactly when the requested part is covered by
\* the history: a covered request returns, a request with a portion outside
\* the declared extent ends with the uncovered-subresource panic.
C5_SucceedsIffCovered ==
    /\ (InStamp /\ Covered) ~> (pc = "idle")
    /\ (InStamp /\ ~Covered) ~> (pc = "panicked")

\* C6: for every tracked resource the parts of its history cover exactly
\* its full extent, with no gap.
C6_HistoryTilesFullExtent ==
    /\ \A ir \in 1..Len(images) :
          UNION { Cells(images[ir].states[k].part) :
                    k \in 1..Len(images[ir].states) }
          = Cells(ImageFullPart(images[ir].resource))
    /\ \A b \in 1..Len(buffers) :
          { buffers[b].states[k].part : k \in 1..Len(buffers[b].states) }
          = { BufferFullPart(buffers[b].resource) }

\* C6, witness: an image and a buffer are tracked, a task is registered and
\* a run has been submitted.
C6_Witness ==
    /\ pc = "idle"
    /\ Len(images) = MaxImages
    /\ Len(buffers) >= 1
    /\ Len(tasks) >= 1
    /\ Count(calls, "submit") >= 1

\* The number of accesses to buffer b that the registered tasks declare.
RECURSIVE DeclaredAccesses(_, _)
DeclaredAccesses(tks, b) ==
    IF tks = <<>> THEN 0
    ELSE Cardinality({ k \in 1..Len(Head(tks).resources.buffers) :
                         Head(tks).resources.buffers[k][1] = b })
         + DeclaredAccesses(Tail(tks), b)

\* C8: every access declared by a registered task is a successful stamp
\* (each with an epoch greater than the ones before): a buffer accessed
\* twice read-only has two stamped states in its history after the seed.
C8_BufferAccessesStamped ==
    \A b \in 1..Len(buffers) :
        Len(buffers[b].states) = 1 + DeclaredAccesses(tasks, b)

\* The calls of the latest run: what follows the last "run" entry.
LastRun ==
    LET starts == { k \in 1..Len(calls) : calls[k].op = "run" }
        start == CHOOSE k \in starts : \A m \in starts : m <= k
    IN IF starts = {} THEN <<>> ELSE SubSeq(calls, start + 1, Len(calls))

IsRecord(c) == c.op = "record"

\* The tasks recorded by the latest run, in the order of the record calls.
Recorded ==
    LET rs == SelectSeq(LastRun, IsRecord)
    IN [k \in 1..Len(rs) |-> rs[k].task]

\* C9: one call of run records every registered task exactly once, in
\* registration order: at any point of a run the tasks recorded so far are
\* 1, 2, ..., in this order, and when run returns they are all the tasks.
C9_RecordOnceInOrder ==
    /\ [](Recorded = [k \in 1..Len(Recorded) |-> k])
    /\ [][(pc = "record" /\ pc' = "idle") =>
             Recorded' = [k \in 1..Len(tasks) |-> k]]_vars

\* C9, witness: a run of MaxTasks tasks has returned.
C9_Witness ==
    /\ pc = "idle"
    /\ Len(Recorded) = MaxTasks
    /\ Len(tasks) = MaxTasks
    /\ calls[Len(calls)].op = "submit"

\* C10: every record call is preceded by a prepare call on the same task,
\* and the render pass and subpass index of the encoder given to record are
\* those of the subpass given to the latest prepare call of that task.
C10_RecordMatchesLastPrepare ==
    \A k \in 1..Len(calls) :
        calls[k].op = "record" =>
            \E m \in 1..(k - 1) :
                /\ calls[m].op = "prepare"
                /\ calls[m].task = calls[k].task
                /\ \A q \in (m + 1)..(k - 1) :
                      ~(calls[q].op = "prepare" /\ calls[q].task = calls[k].task)
                /\ calls[m].pass = calls[k].pass
                /\ calls[m].index = calls[k].index

\* C10, witness: a task has been recorded in two runs, with two different
\* render passes.
C10_Witness ==
    \E k1, k2 \in 1..Len(calls) :
        /\ k1 < k2
        /\ calls[k1].op = "record"
        /\ calls[k2].op = "record"
        /\ calls[k1].task = calls[k2].task
        /\ calls[k1].pass # calls[k2].pass

\* C11: a FrameGraph is single-use. Once a run has returned it is Submitted
\* for good: no later use_buffer, use_image, add_render_task or run changes
\* the arenas or the task list, and nothing is prepared, recorded or
\* submitted again.
C11_SingleUse ==
    [][(pc = "idle" /\ Count(calls, "submit") >= 1) =>
         UNCHANGED <<buffers, images, tasks, calls>>]_vars

\* The latest run has failed to create a framebuffer.
FramebufferFailed ==
    \E k \in 1..Len(LastRun) : LastRun[k].op = "create_framebuffer_err"

\* C12: a run in which the creation of a framebuffer fails is aborted at
\* that call: the failure is the last thing the run does, so the recording
\* is not finished, the fence is not reset and nothing is submitted, also
\* when earlier nodes were already recorded.
C12_FailedRunSubmitsNothing ==
    FramebufferFailed =>
        /\ LastRun[Len(LastRun)].op = "create_framebuffer_err"
        /\ \A k \in 1..Len(LastRun) :
              LastRun[k].op \notin {"finish", "reset_fences", "submit"}
        /\ Count(calls, "submit") = Count(calls, "run") - 1

\* C12, witness: the framebuffer of the second node fails after the first
\* node was recorded.
C12_Witness ==
    /\ pc = "panicked"
    /\ FramebufferFailed
    /\ Len(Recorded) >= 1

\* The calls made for task t.
CallsFor(t) == { k \in 1..Len(calls) : calls[k].task = t }

\* C13: a Transfer or Compute task is passed through run unchanged: the
\* only call ever made for it is record, made on the command buffer itself
\* (no render pass, no subpass); it is never prepared, and render passes
\* are created and begun for the Graphics tasks only. A run records it at
\* most once, and once when the loop over the nodes is over.
C13_WorkTaskPassedThrough ==
    LET graphics == { t \in 1..Len(tasks) : tasks[t].kind = "Graphics" }
        work == { t \in 1..Len(tasks) : tasks[t].kind \in WorkKinds }
    IN /\ \A t \in work : \A k \in CallsFor(t) :
              calls[k] = Call("record", t, 0, 0)
       /\ Count(LastRun, "create_render_pass") <= Cardinality(graphics)
       /\ Count(LastRun, "begin_renderpass_inline") <= Cardinality(graphics)
       /\ \A t \in work :
              LET records == { k \in 1..Len(LastRun) : LastRun[k].task = t }
              IN /\ Cardinality(records) <= 1
                 /\ (pc = "record" /\ n > Len(nodes)) => Cardinality(records) = 1

\* C13, witness: a run has recorded a Graphics task and then a Transfer or
\* Compute task and is about to finish the command buffer.
C13_Witness ==
    /\ pc = "record"
    /\ n > Len(nodes)
    /\ Len(tasks) >= 2
    /\ tasks[1].kind = "Graphics"
    /\ tasks[2].kind \in WorkKinds
    /\ LastRun[Len(LastRun)] = Call("record", 2, 0, 0)

\* Image ir has, after its seed entry, a TrackedState stamped for part p.
StateStamped(ir, p) ==
    \E k \in 2..Len(images[ir].states) : images[ir].states[k].part = p

\* C14: a stamp of a covered part succeeds and appends one TrackedState for
\* the requested part to the history of the addressed image: the call
\* returns with that entry in place.
C14_StampAppendsState ==
    \A p \in PartInputs :
        (InStamp /\ Covered /\ requested = p)
        ~> (pc = "idle" /\ \E ir \in 1..Len(images) : StateStamped(ir, p))

\* C15: add_render_task invokes the tracker for every access it is given,
\* the buffer accesses declared in `resources` included: once a task is
\* registered, each buffer it declares an access to has a TrackedState
\* with that access after its seed entry.
C15_DeclaredAccessesTracked ==
    \A t \in 1..Len(tasks) :
        \A k \in 1..Len(tasks[t].resources.buffers) :
            LET b == tasks[t].resources.buffers[k][1]
                acc == tasks[t].resources.buffers[k][2]
            IN \E s \in 2..Len(buffers[b].states) :
                   buffers[b].states[s].state = acc

\* The positions of the calls of the latest run with operation op.
At(op) == { k \in 1..Len(LastRun) : LastRun[k].op = op }

\* C16: a run acquires one command buffer and submits at most once; a run
\* that has submitted has done so as its last call, right after finishing
\* the command buffer and then resetting the fence, and everything it has
\* recorded lies between the acquisition of the command buffer and its
\* finish; when the loop over the nodes is over, every task is recorded.
C16_OneSubmissionAfterRecording ==
    /\ Cardinality(At("acquire_command_buffer")) <= 1
    /\ Cardinality(At("submit")) <= 1
    /\ \A s \in At("submit") :
          /\ s = Len(LastRun)
          /\ At("reset_fences") = {s - 1}
          /\ At("finish") = {s - 2}
          /\ Cardinality(At("acquire_command_buffer")) = 1
          /\ Cardinality(At("record")) >= Cardinality(At("prepare"))
          /\ \A a \in At("acquire_command_buffer") :
                \A k \in At("record") \cup At("begin_renderpass_inline")
                         \cup At("next_subpass_inline") :
                    a < k /\ k < s - 2
    /\ (pc = "record" /\ n > Len(nodes)) =>
          \A t \in 1..Len(tasks) : \E k \in At("record") : LastRun[k].task = t
    /\ pc = "idle" => Count(calls, "submit") = Count(calls, "run")

\* C16, witness: two runs have returned, the latest one with two tasks
\* recorded in its submission.
C16_Witness ==
    /\ pc = "idle"
    /\ Count(calls, "submit") = 2
    /\ Cardinality(At("record")) = 2

\* The history of a tracked image is its seed: one entry over every aspect,
\* level and layer of the image, in the state of its body (no access and
\* the Undefined layout without a body), with no dependencies.
ImageSeeded(r) ==
    /\ Len(r.states) = 1
    /\ Cells(r.states[1].part)
       = r.resource.format \X (0 .. (r.resource.kind.levels - 1))
                           \X (0 .. (r.resource.kind.layers - 1))
    /\ r.states[1].state
       = (IF r.resource.body = None
          THEN [access |-> {}, layout |-> "Undefined"]
          ELSE r.resource.body[1])
    /\ r.states[1].dependencies = <<>>

\* The same for a tracked buffer: its part is the whole buffer.
BufferSeeded(r) ==
    /\ Len(r.states) = 1
    /\ r.states[1].part = "()"
    /\ r.states[1].state = (IF r.resource.body = None THEN {}
                            ELSE r.resource.body[1])
    /\ r.states[1].dependencies = <<>>

\* C17: use_buffer and use_image append one seeded resource at the end of
\* their arena: the new resource sits at the index that was the arena's
\* length (the handle returned), and every earlier index holds the same
\* resource with the same history as before.
C17_UseAppendsSeed ==
    [][/\ images' # images =>
            /\ Len(images') = Len(images) + 1
            /\ \A k \in 1..Len(images) : images'[k] = images[k]
            /\ ImageSeeded(images'[Len(images) + 1])
       /\ buffers' # buffers =>
            /\ Len(buffers') = Len(buffers) + 1
            /\ \A k \in 1..Len(buffers) : buffers'[k] = buffers[k]
            /\ BufferSeeded(buffers'[Len(buffers) + 1])]_vars

\* C17, witness: two different images, one with a body and one without,
\* and a buffer have been registered.
C17_Witness ==
    /\ Len(images) = 2
    /\ images[1].resource.body # None
    /\ images[2].resource.body = None
    /\ Len(buffers) = 1

\* add_render_task has entered stamp_image and the stamp has panicked.
AddRenderTaskFailed == pc = "panicked" /\ call # None

\* C18: an add_render_task call whose stamp fails registers nothing: from
\* its first stamp on, no step of the call changes the task list or makes
\* a call on a task, and nothing follows the panic, so no run prepares or
\* records the task.
C18_FailedCallRegistersNothing ==
    [][/\ call' # None => (tasks' = tasks /\ calls' = calls)
       /\ AddRenderTaskFailed => UNCHANGED vars]_vars

\* C18, witness: the stamp of an add_render_task call has panicked on a
\* request outside the image, after another task was registered and run.
C18_Witness ==
    /\ AddRenderTaskFailed
    /\ ~OverlapsHistory
    /\ Len(tasks) >= 1
    /\ Count(calls, "submit") >= 1

====
